---- MODULE Spec2Model ----
(***************************************************************************)
(* The client CRUD API of routers/clients.py over the clients table of     *)
(* models/clients.py.                                                      *)
(*                                                                         *)
(* The five handlers are plain `def` functions, so the hosting server runs *)
(* them on worker threads, one request per worker, concurrently.  Each     *)
(* handler is cut at its database calls: one action per call, together     *)
(* with the local code that follows it up to the next call (building the   *)
(* response, the except block with its rollback).  Every database call     *)
(* inside a try block may raise.                                           *)
(*                                                                         *)
(* The store is the table as committed.  create_engine() sets no isolation *)
(* level (database/connection.py:14-16), so every statement reads what is  *)
(* committed at the time it runs, and a session's uncommitted write (txn)  *)
(* is seen by no other session; a statement that touches a row or a unique *)
(* email another session has written and not yet committed waits for it.   *)
(*                                                                         *)
(* db.rollback() in the except blocks, db.close() in get_db_session and    *)
(* the construction of the JSONResponse are taken not to raise.            *)
(***************************************************************************)
EXTENDS Integers, Sequences, FiniteSets, TLC

\* Bounds of the model.
MaxId == 2        \* the id sequence hands out 1..MaxId
MaxLimit == 1     \* limit query parameter ranges over 0..MaxLimit
MaxOffset == 1    \* offset query parameter ranges over 0..MaxOffset

Procs == {"w1", "w2"}
Names == {"John", "Jane"}
Emails == {"john@x", "jane@x"}
Times == {"t1"}
ClientIds == 1..MaxId
\* limit and offset are plain ints; the model draws the non-negative ones.
Limits == 0..MaxLimit
Offsets == 0..MaxOffset

VARIABLES
    store,      \* committed rows of table clients: id -> [name, email, created_at]
    nextId,     \* next value of the autoincrement id
    pc,         \* per worker: where its request stands
    req,        \* per worker: the request (operation and parameters)
    session,    \* per worker: the request's database session
    txn,        \* per worker: the session's write, pending or committed
    result,     \* per worker: the page get_clients has fetched
    resp        \* per worker: the JSONResponse the handler returned

vars == <<store, nextId, pc, req, session, txn, result, resp>>

Min(a, b) == IF a < b THEN a ELSE b
Max(a, b) == IF a > b THEN a ELSE b

----------------------------------------------------------------------------
\* Values

None == [kind |-> "null"]
Dict(v) == [kind |-> "object", value |-> v]
List(s) == [kind |-> "list", items |-> s]
EmptyDict == [empty |-> TRUE]

NoRequest == [op |-> "none", client_id |-> 0, name |-> "", email |-> "",
              limit |-> 0, offset |-> 0]
NoTxn == [kind |-> "none", state |-> "none", id |-> 0,
          row |-> [name |-> "", email |-> "", created_at |-> ""]]
NoResponse == [status_code |-> 0]

\* A Client instance loaded from row id of table s.
Client(s, id) == [id |-> id, name |-> s[id].name, email |-> s[id].email,
                  created_at |-> s[id].created_at]

\* The dict the handlers build from a Client instance.
ClientData(c) == [id |-> c.id, name |-> c.name, email |-> c.email,
                  created_at |-> c.created_at]

SetToSeq(S) ==
    LET RECURSIVE Build(_, _)
        Build(T, acc) == IF T = {} THEN acc
                         ELSE LET m == CHOOSE x \in T : \A y \in T : x <= y
                              IN Build(T \ {m}, Append(acc, m))
    IN Build(S, <<>>)

----------------------------------------------------------------------------
\* Response envelope (routers/responses.py)

get_response(status, message, data, status_code, metadata) ==
    [status |-> status, message |-> message, data |-> data,
     metadata |-> metadata, status_code |-> status_code]

get_success_response(data, message, status_code) ==
    get_response("success", message, data, status_code, EmptyDict)

get_error_response(error, status_code, details) ==
    get_response("error", error, None, status_code, [details |-> details])

get_paginated_response(data, total_count, page, items_per_page, has_more, status_code) ==
    get_response("success", "Data retrieved successfully", data, status_code,
                 [pagination |-> [total_count |-> total_count, page |-> page,
                                  items_per_page |-> items_per_page,
                                  has_more |-> has_more]])

ExceptionDetails(e) == [exception |-> e]

\* Mutant: status_code is left at get_error_response's default.
NotFound_DefaultStatus == get_error_response("Client not found", 400, EmptyDict)

\* get_error_response(error="Client not found", status_code=404)
NotFound == get_error_response("Client not found", 404, EmptyDict)

----------------------------------------------------------------------------
\* The store's statements

\* Mutant: the re-fetch takes the table's first row, without the email filter.
QueryByEmail_NoFilter(s, email) ==
    IF DOMAIN s = {} THEN <<>>
    ELSE <<Client(s, CHOOSE i \in DOMAIN s : \A j \in DOMAIN s : i <= j)>>

\* db.query(Client).filter(Client.email == email).first()
QueryByEmail(s, email) ==
    LET ids == {i \in DOMAIN s : s[i].email = email}
    IN IF ids = {} THEN <<>>
       ELSE <<Client(s, CHOOSE i \in ids : \A j \in ids : i <= j)>>

\* db.query(Client).filter(Client.id == client_id).first()
QueryById(s, client_id) ==
    IF client_id \in DOMAIN s THEN <<Client(s, client_id)>> ELSE <<>>

\* Mutant: OFFSET is not applied.
PageSize_NoOffset(n, limit, offset) == Max(0, Min(limit, n))

\* Number of rows of OFFSET offset LIMIT limit over a table of n rows.
PageSize(n, limit, offset) == Max(0, Min(limit, n - offset))

\* db.query(Client).count()
Count(s) == Cardinality(DOMAIN s)

\* Mutant: the unique constraint on email is not enforced.
EmailHeld_NotEnforced(s, id, email) == FALSE

\* unique=True on Client.email: a row other than `id` already holds `email`.
EmailHeld(s, id, email) == \E i \in DOMAIN s : i # id /\ s[i].email = email

\* Another session holds an uncommitted write on row `id` or on `email`.
Conflicts(p, id, email) ==
    \E q \in Procs \ {p} :
        /\ txn[q].state = "pending"
        /\ \/ txn[q].id = id
           \/ txn[q].row.email = email
           \/ txn[q].id \in DOMAIN store /\ store[txn[q].id].email = email

\* Mutant: the UPDATE also rewrites created_at.
Apply_UpdateTouchesCreatedAt(s, t) ==
    CASE t.kind = "insert" -> [i \in DOMAIN s \cup {t.id} |->
                                  IF i = t.id THEN t.row ELSE s[i]]
      [] t.kind = "update" -> IF t.id \in DOMAIN s
                              THEN [s EXCEPT ![t.id] = t.row]
                              ELSE s
      [] t.kind = "delete" -> [i \in DOMAIN s \ {t.id} |-> s[i]]
      [] OTHER -> s

\* The committed table after the session's write t is committed.
Apply(s, t) ==
    CASE t.kind = "insert" -> [i \in DOMAIN s \cup {t.id} |->
                                  IF i = t.id THEN t.row ELSE s[i]]
      [] t.kind = "update" -> IF t.id \in DOMAIN s
                              THEN [s EXCEPT ![t.id] =
                                      [name |-> t.row.name, email |-> t.row.email,
                                       created_at |-> s[t.id].created_at]]
                              ELSE s
      [] t.kind = "delete" -> [i \in DOMAIN s \ {t.id} |-> s[i]]
      [] OTHER -> s

\* db.rollback(): the session's uncommitted write is discarded.
Rollback(t) == IF t.state = "pending" THEN NoTxn ELSE t

----------------------------------------------------------------------------
Init ==
    /\ store = <<>>
    /\ nextId = 1
    /\ pc = [p \in Procs |-> "idle"]
    /\ req = [p \in Procs |-> NoRequest]
    /\ session = [p \in Procs |-> "none"]
    /\ txn = [p \in Procs |-> NoTxn]
    /\ result = [p \in Procs |-> <<>>]
    /\ resp = [p \in Procs |-> NoResponse]


----------------------------------------------------------------------------
\* Requests the router accepts

CreateRequests == {[NoRequest EXCEPT !.op = "create", !.name = n, !.email = e] :
                      n \in Names, e \in Emails}
ListRequests == {[NoRequest EXCEPT !.op = "list", !.limit = l, !.offset = o] :
                    l \in Limits, o \in Offsets}
GetRequests == {[NoRequest EXCEPT !.op = "get", !.client_id = i] : i \in ClientIds}
UpdateRequests == {[NoRequest EXCEPT !.op = "update", !.client_id = i,
                                     !.name = n, !.email = e] :
                      i \in ClientIds, n \in Names, e \in Emails}
DeleteRequests == {[NoRequest EXCEPT !.op = "delete", !.client_id = i] : i \in ClientIds}

Requests == CreateRequests \cup ListRequests \cup GetRequests
              \cup UpdateRequests \cup DeleteRequests

\* The handler's first database call.
FirstStep(op) ==
    CASE op = "create" -> "insert"
      [] op = "list"   -> "page"
      [] op = "get"    -> "lookup"
      [] op = "update" -> "update"
      [] op = "delete" -> "lookup"

\* Creates that have not yet drawn their id from the sequence.
PendingCreates == Cardinality({q \in Procs : pc[q] = "insert"})

----------------------------------------------------------------------------
\* Exception handling

StoreError == "OperationalError"
IntegrityError == "IntegrityError"
FetchFailed == "Failed to fetch the newly created client"
ZeroDivisionError == "integer division or modulo by zero"

\* Mutant: create's except block answers 500 like the others.
ExceptResponse_Create500(op, e) ==
    get_error_response(
        CASE op = "create" -> "Failed to create client"
          [] op = "list"   -> "Error retrieving clients"
          [] op = "get"    -> "Error retrieving client"
          [] op = "update" -> "Error updating client"
          [] op = "delete" -> "Error deleting client",
        500, ExceptionDetails(e))

\* The error envelope of each handler's except block.
ExceptResponse(op, e) ==
    CASE op = "create" -> get_error_response("Failed to create client", 400,
                                             ExceptionDetails(e))
      [] op = "list"   -> get_error_response("Error retrieving clients", 500,
                                             ExceptionDetails(e))
      [] op = "get"    -> get_error_response("Error retrieving client", 500,
                                             ExceptionDetails(e))
      [] op = "update" -> get_error_response("Error updating client", 500,
                                             ExceptionDetails(e))
      [] op = "delete" -> get_error_response("Error deleting client", 500,
                                             ExceptionDetails(e))

\* The except block's transaction handling: create, update and delete call
\* db.rollback(); list and get do not.
ExceptTxn(op, t) == IF op \in {"create", "update", "delete"} THEN Rollback(t) ELSE t

\* Exception e is raised inside worker p's try block: the except block runs
\* and the handler returns its error envelope.
Raise(p, e) ==
    /\ txn' = [txn EXCEPT ![p] = ExceptTxn(req[p].op, @)]
    /\ resp' = [resp EXCEPT ![p] = ExceptResponse(req[p].op, e)]
    /\ pc' = [pc EXCEPT ![p] = "close"]

\* The handler returns response r.
Return(p, r) ==
    /\ resp' = [resp EXCEPT ![p] = r]
    /\ pc' = [pc EXCEPT ![p] = "close"]

----------------------------------------------------------------------------
\* get_db_session and the request life cycle

\* A request arrives at idle worker p; Depends(get_db_session) opens its session.
Start(p) ==
    /\ pc[p] = "idle"
    /\ \E r \in Requests :
          /\ r.op = "create" => nextId + PendingCreates <= MaxId
          /\ req' = [req EXCEPT ![p] = r]
          /\ pc' = [pc EXCEPT ![p] = FirstStep(r.op)]
    /\ session' = [session EXCEPT ![p] = "open"]
    /\ UNCHANGED <<store, nextId, txn, result, resp>>

\* Mutant: no finally; the session is closed only after a success response.
Close_NoFinally(p) ==
    /\ pc[p] = "close"
    /\ session' = [session EXCEPT ![p] =
                     IF resp[p].status = "success" THEN "none" ELSE @]
    /\ pc' = [pc EXCEPT ![p] = "idle"]
    /\ req' = [req EXCEPT ![p] = NoRequest]
    /\ txn' = [txn EXCEPT ![p] = NoTxn]
    /\ result' = [result EXCEPT ![p] = <<>>]
    /\ resp' = [resp EXCEPT ![p] = NoResponse]
    /\ UNCHANGED <<store, nextId>>

\* get_db_session's finally: db.close().  The response goes out and the
\* worker is free for the next request.
Close(p) ==
    /\ pc[p] = "close"
    /\ session' = [session EXCEPT ![p] = "none"]
    /\ pc' = [pc EXCEPT ![p] = "idle"]
    /\ req' = [req EXCEPT ![p] = NoRequest]
    /\ txn' = [txn EXCEPT ![p] = NoTxn]
    /\ result' = [result EXCEPT ![p] = <<>>]
    /\ resp' = [resp EXCEPT ![p] = NoResponse]
    /\ UNCHANGED <<store, nextId>>

----------------------------------------------------------------------------
\* create_client

\* db.execute(insert(Client).values(name, email, created_at=datetime.now()))
Insert(p) ==
    /\ pc[p] = "insert"
    /\ \/ /\ Raise(p, StoreError)
          /\ UNCHANGED <<store, nextId, req, session, result>>
       \/ /\ ~Conflicts(p, nextId, req[p].email)
          /\ EmailHeld(store, nextId, req[p].email)
          /\ Raise(p, IntegrityError)
          /\ UNCHANGED <<store, nextId, req, session, result>>
       \/ /\ ~Conflicts(p, nextId, req[p].email)
          /\ ~EmailHeld(store, nextId, req[p].email)
          /\ \E now \in Times :
                txn' = [txn EXCEPT ![p] =
                          [kind |-> "insert", state |-> "pending", id |-> nextId,
                           row |-> [name |-> req[p].name, email |-> req[p].email,
                                    created_at |-> now]]]
          /\ nextId' = nextId + 1
          /\ pc' = [pc EXCEPT ![p] = "commit"]
          /\ UNCHANGED <<store, req, session, result, resp>>

\* db.commit() of create_client and update_client
Commit(p) ==
    /\ pc[p] = "commit"
    /\ \/ /\ Raise(p, StoreError)
          /\ UNCHANGED <<store, nextId, req, session, result>>
       \/ /\ store' = Apply(store, txn[p])
          /\ txn' = [txn EXCEPT ![p].state =
                       IF @ = "pending" THEN "committed" ELSE @]
          /\ pc' = [pc EXCEPT ![p] = "fetch"]
          /\ UNCHANGED <<nextId, req, session, result, resp>>

\* create_client: fetch the inserted row by email and return it.
CreateFetch(p) ==
    /\ pc[p] = "fetch"
    /\ req[p].op = "create"
    /\ \/ /\ Raise(p, StoreError)
          /\ UNCHANGED <<store, nextId, req, session, result>>
       \/ LET new_client == QueryByEmail(store, req[p].email)
          IN /\ IF new_client = <<>>
                THEN Raise(p, FetchFailed)
                ELSE /\ Return(p, get_success_response(
                                     Dict(ClientData(new_client[1])),
                                     "Client created successfully", 201))
                     /\ UNCHANGED txn
             /\ UNCHANGED <<store, nextId, req, session, result>>


----------------------------------------------------------------------------
\* get_clients

\* The pages OFFSET offset LIMIT limit can return: the query has no ORDER BY,
\* so any PageSize rows of the table, here listed by id.
Pages(s, limit, offset) ==
    {[k \in 1..Len(SetToSeq(S)) |-> Client(s, SetToSeq(S)[k])] :
        S \in {T \in SUBSET DOMAIN s :
                 Cardinality(T) = PageSize(Count(s), limit, offset)}}

\* page=(offset // limit) + 1; evaluated for limit >= 1 only, limit = 0
\* raising ZeroDivisionError in ListCount.
PageNumber(limit, offset) == (offset \div limit) + 1

\* has_more=(offset + limit < total_count)
HasMore(limit, offset, total_count) == offset + limit < total_count

\* result = db.query(Client).offset(offset).limit(limit).all()
ListPage(p) ==
    /\ pc[p] = "page"
    /\ \/ /\ Raise(p, StoreError)
          /\ UNCHANGED <<store, nextId, req, session, result>>
       \/ /\ \E page \in Pages(store, req[p].limit, req[p].offset) :
                result' = [result EXCEPT ![p] = page]
          /\ pc' = [pc EXCEPT ![p] = "count"]
          /\ UNCHANGED <<store, nextId, req, session, txn, resp>>

\* total_count = db.query(Client).count(), then the paginated response.
ListCount(p) ==
    /\ pc[p] = "count"
    /\ \/ /\ Raise(p, StoreError)
          /\ UNCHANGED <<store, nextId, req, session, result>>
       \/ LET total_count == Count(store)
              clients == [k \in 1..Len(result[p]) |-> ClientData(result[p][k])]
          IN /\ IF req[p].limit = 0
                THEN Raise(p, ZeroDivisionError)
                ELSE /\ Return(p, get_paginated_response(
                                     List(clients), total_count,
                                     PageNumber(req[p].limit, req[p].offset),
                                     req[p].limit,
                                     HasMore(req[p].limit, req[p].offset, total_count),
                                     200))
                     /\ UNCHANGED txn
             /\ UNCHANGED <<store, nextId, req, session, result>>

----------------------------------------------------------------------------
\* get_client, and the lookup that opens delete_client

Lookup(p) ==
    /\ pc[p] = "lookup"
    /\ \/ /\ Raise(p, StoreError)
          /\ UNCHANGED <<store, nextId, req, session, result>>
       \/ LET client == QueryById(store, req[p].client_id)
          IN /\ IF client = <<>>
                THEN /\ Return(p, NotFound)
                     /\ UNCHANGED result
                ELSE IF req[p].op = "get"
                THEN /\ Return(p, get_success_response(
                                     Dict(ClientData(client[1])),
                                     "Client retrieved successfully", 200))
                     /\ UNCHANGED result
                ELSE /\ pc' = [pc EXCEPT ![p] = "delete"]
                     /\ UNCHANGED <<result, resp>>
             /\ UNCHANGED <<store, nextId, req, session, txn>>

----------------------------------------------------------------------------
\* update_client

\* db.execute(update(Client).where(Client.id == client_id).values(name, email))
Update(p) ==
    /\ pc[p] = "update"
    /\ \/ /\ Raise(p, StoreError)
          /\ UNCHANGED <<store, nextId, req, session, result>>
       \/ /\ req[p].client_id \notin DOMAIN store
          /\ pc' = [pc EXCEPT ![p] = "commit"]
          /\ UNCHANGED <<store, nextId, req, session, txn, result, resp>>
       \/ /\ req[p].client_id \in DOMAIN store
          /\ ~Conflicts(p, req[p].client_id, req[p].email)
          /\ EmailHeld(store, req[p].client_id, req[p].email)
          /\ Raise(p, IntegrityError)
          /\ UNCHANGED <<store, nextId, req, session, result>>
       \/ /\ req[p].client_id \in DOMAIN store
          /\ ~Conflicts(p, req[p].client_id, req[p].email)
          /\ ~EmailHeld(store, req[p].client_id, req[p].email)
          /\ txn' = [txn EXCEPT ![p] =
                       [kind |-> "update", state |-> "pending",
                        id |-> req[p].client_id,
                        row |-> [name |-> req[p].name, email |-> req[p].email,
                                 created_at |-> ""]]]
          /\ pc' = [pc EXCEPT ![p] = "commit"]
          /\ UNCHANGED <<store, nextId, req, session, result, resp>>

\* update_client: fetch the updated row by id and return it.
UpdateFetch(p) ==
    /\ pc[p] = "fetch"
    /\ req[p].op = "update"
    /\ \/ /\ Raise(p, StoreError)
          /\ UNCHANGED <<store, nextId, req, session, result>>
       \/ LET updated_client == QueryById(store, req[p].client_id)
          IN /\ Return(p, IF updated_client = <<>>
                          THEN NotFound
                          ELSE get_success_response(
                                   Dict(ClientData(updated_client[1])),
                                   "Client updated successfully", 200))
             /\ UNCHANGED <<store, nextId, req, session, txn, result>>

----------------------------------------------------------------------------
\* delete_client

\* Mutant: the deletion is confirmed with 200.
DeletedResponse_200 == get_success_response(None, "Client deleted successfully", 200)

\* delete_client's success response.
DeletedResponse == get_success_response(None, "Client deleted successfully", 204)

\* db.delete(client); db.commit(): the DELETE is flushed and committed.
Delete(p) ==
    /\ pc[p] = "delete"
    /\ \/ /\ Raise(p, StoreError)
          /\ UNCHANGED <<store, nextId, req, session, result>>
       \/ /\ ~Conflicts(p, req[p].client_id, "")
          /\ LET t == [NoTxn EXCEPT !.kind = "delete", !.state = "committed",
                                    !.id = req[p].client_id]
             IN /\ store' = Apply(store, t)
                /\ txn' = [txn EXCEPT ![p] = t]
          /\ Return(p, DeletedResponse)
          /\ UNCHANGED <<nextId, req, session, result>>

----------------------------------------------------------------------------
Next ==
    \E p \in Procs :
        \/ Start(p)
        \/ Insert(p)
        \/ Commit(p)
        \/ CreateFetch(p)
        \/ ListPage(p)
        \/ ListCount(p)
        \/ Lookup(p)
        \/ Update(p)
        \/ UpdateFetch(p)
        \/ Delete(p)
        \/ Close(p)

Spec == Init /\ [][Next]_vars


----------------------------------------------------------------------------
\* Vocabulary of the properties

\* Worker p takes the step.
Step(p) == pc'[p] # pc[p]

\* Worker p's handler has returned response r and the session is not yet closed.
Returned(p) == pc[p] = "close"

\* The step makes p's handler return, and not from a store failure.
ReturnsNoStoreFailure(p) ==
    /\ pc'[p] = "close"
    /\ resp'[p].metadata # [details |-> [exception |-> "OperationalError"]]

TypeOK ==
    /\ nextId \in 1..(MaxId + 1)
    /\ DOMAIN store \subseteq 1..(nextId - 1)
    /\ \A i \in DOMAIN store :
          store[i] \in [name : Names, email : Emails, created_at : Times]
    /\ pc \in [Procs -> {"idle", "insert", "commit", "fetch", "page", "count",
                         "lookup", "update", "delete", "close"}]
    /\ \A p \in Procs : req[p] \in Requests \cup {NoRequest}
    /\ session \in [Procs -> {"none", "open"}]

----------------------------------------------------------------------------
----------------------------------------------------------------------------
\* C2: a create whose email no record holds when its INSERT runs draws an id
\* that no record has (unless the store fails), its commit adds exactly the
\* record (id, name, email), and, that record not having been updated or
\* deleted since, the handler returns 201 with a success envelope carrying
\* that id, name and email; a get on an id whose record is in the table
\* returns 200 with that record's id, name and email.
C2_CreateThenGet ==
    [][\A p \in Procs :
         Step(p) =>
           /\ (/\ pc[p] = "insert"
               /\ \A i \in DOMAIN store : store[i].email # req[p].email
               /\ ReturnsNoStoreFailure(p) \/ pc'[p] # "close")
              => /\ pc'[p] = "commit"
                 /\ txn'[p].state = "pending"
                 /\ txn'[p].id \notin DOMAIN store
                 /\ \A q \in Procs \ {p} : txn[q].id # txn'[p].id
                 /\ txn'[p].row.name = req[p].name
                 /\ txn'[p].row.email = req[p].email
           /\ (/\ pc[p] = "commit"
               /\ req[p].op = "create"
               /\ pc'[p] = "fetch")
              => /\ DOMAIN store' = DOMAIN store \cup {txn[p].id}
                 /\ store'[txn[p].id] = txn[p].row
                 /\ \A i \in DOMAIN store : store'[i] = store[i]
                 /\ txn'[p] = [txn[p] EXCEPT !.state = "committed"]
           /\ (/\ pc[p] = "fetch"
               /\ req[p].op = "create"
               /\ txn[p].id \in DOMAIN store
               /\ store[txn[p].id] = txn[p].row
               /\ ReturnsNoStoreFailure(p))
              => /\ resp'[p].status_code = 201
                 /\ resp'[p].status = "success"
                 /\ resp'[p].data.kind = "object"
                 /\ resp'[p].data.value.id = txn[p].id
                 /\ resp'[p].data.value.name = req[p].name
                 /\ resp'[p].data.value.email = req[p].email
                 /\ store' = store
           /\ (/\ pc[p] = "lookup"
               /\ req[p].op = "get"
               /\ req[p].client_id \in DOMAIN store
               /\ ReturnsNoStoreFailure(p))
              => /\ resp'[p].status_code = 200
                 /\ resp'[p].status = "success"
                 /\ resp'[p].data.kind = "object"
                 /\ resp'[p].data.value.id = req[p].client_id
                 /\ resp'[p].data.value.name = store[req[p].client_id].name
                 /\ resp'[p].data.value.email = store[req[p].client_id].email
                 /\ store' = store]_vars

\* A create has returned 201 with its record while a get of that id has
\* returned 200 with the same name and email.
C2_Witness ==
    \E p, q \in Procs :
        /\ Returned(p) /\ req[p].op = "create" /\ resp[p].status_code = 201
        /\ resp[p].data.value.id = txn[p].id
        /\ Returned(q) /\ req[q].op = "get" /\ resp[q].status_code = 200
        /\ resp[q].data.value.id = txn[p].id
        /\ resp[q].data.value.name = req[p].name
        /\ resp[q].data.value.email = req[p].email


----------------------------------------------------------------------------
\* C3: when a create, update or delete returns the error envelope of its
\* except block, the table holds no change that request made.
C3_ErrorMeansNoChange ==
    \A p \in Procs :
        (/\ Returned(p)
         /\ req[p].op \in {"create", "update", "delete"}
         /\ resp[p].status = "error"
         /\ resp[p].status_code \in {400, 500})
        => ~(/\ txn[p].state = "committed"
             /\ \/ /\ txn[p].kind = "insert"
                   /\ txn[p].id \in DOMAIN store
                \/ /\ txn[p].kind = "update"
                   /\ txn[p].id \in DOMAIN store
                   /\ store[txn[p].id].name = txn[p].row.name
                   /\ store[txn[p].id].email = txn[p].row.email
                \/ /\ txn[p].kind = "delete"
                   /\ txn[p].id \notin DOMAIN store)

----------------------------------------------------------------------------
\* C4: a get, update or delete whose id has no record in the table when the
\* handler's statement runs leaves the table as it is, and the statement that
\* looks the record up (get and delete: the query by id; update: the
\* re-fetch) makes the handler return 404 with the error envelope
\* "Client not found", unless the store fails.
C4_NotFound ==
    [][\A p \in Procs :
         (/\ Step(p)
          /\ req[p].op \in {"get", "update", "delete"}
          /\ pc[p] \in {"lookup", "update", "commit", "fetch"}
          /\ req[p].client_id \notin DOMAIN store)
         => /\ store' = store
            /\ (\/ pc[p] \in {"lookup", "fetch"} /\ ReturnsNoStoreFailure(p)
                \/ pc[p] = "lookup" /\ pc'[p] # "close")
               => /\ pc'[p] = "close"
                  /\ resp'[p].status_code = 404
                  /\ resp'[p].status = "error"
                  /\ resp'[p].message = "Client not found"
                  /\ resp'[p].data = [kind |-> "null"]]_vars

\* An update and a delete of an id that has no record have both returned 404.
C4_Witness ==
    \E p, q \in Procs :
        /\ Returned(p) /\ req[p].op = "update" /\ resp[p].status_code = 404
        /\ Returned(q) /\ req[q].op = "delete" /\ resp[q].status_code = 404
        /\ req[p].client_id \notin DOMAIN store
        /\ req[q].client_id \notin DOMAIN store
        /\ txn[p].state = "none"


----------------------------------------------------------------------------
\* C5: an update of an existing id that the store accepts sets, at its
\* commit, that record's name and email to the given values and leaves the
\* record's id and created_at and every other record as they were; no other
\* step of an update changes the table; and the re-fetch, finding the record,
\* returns 200 with the success envelope carrying the record as it then is.
C5_UpdateFrame ==
    [][\A p \in Procs :
         (Step(p) /\ req[p].op = "update") =>
           /\ (/\ pc[p] = "update"
               /\ pc'[p] = "commit"
               /\ req[p].client_id \in DOMAIN store)
              => /\ txn'[p].state = "pending"
                 /\ txn'[p].id = req[p].client_id
           /\ (/\ pc[p] = "commit"
               /\ pc'[p] = "fetch"
               /\ txn[p].state = "pending")
              => /\ DOMAIN store' = DOMAIN store
                 /\ req[p].client_id \in DOMAIN store
                 /\ store'[req[p].client_id] =
                       [name |-> req[p].name, email |-> req[p].email,
                        created_at |-> store[req[p].client_id].created_at]
                 /\ \A i \in DOMAIN store \ {req[p].client_id} :
                       store'[i] = store[i]
           /\ ~(pc[p] = "commit" /\ pc'[p] = "fetch") => store' = store
           /\ (/\ pc[p] = "fetch"
               /\ req[p].client_id \in DOMAIN store
               /\ ReturnsNoStoreFailure(p))
              => /\ resp'[p].status_code = 200
                 /\ resp'[p].status = "success"
                 /\ resp'[p].data =
                       [kind |-> "object",
                        value |-> [id |-> req[p].client_id,
                                   name |-> store[req[p].client_id].name,
                                   email |-> store[req[p].client_id].email,
                                   created_at |->
                                       store[req[p].client_id].created_at]]]_vars

\* An update has committed and returned 200 with the given name and email,
\* with another record in the table beside the updated one.
C5_Witness ==
    \E p \in Procs :
        /\ Returned(p) /\ req[p].op = "update" /\ resp[p].status_code = 200
        /\ txn[p].state = "committed"
        /\ resp[p].data.value.name = req[p].name
        /\ resp[p].data.value.email = req[p].email
        /\ resp[p].data.value.created_at \in Times
        /\ \E i \in DOMAIN store : i # req[p].client_id

----------------------------------------------------------------------------
\* C6: a delete that has found its record and meets no store failure returns
\* 204 and removes exactly that record; an id once removed has no record
\* again (an id enters the table only by the commit of the insert that drew
\* it, and a pending insert's id is not in the table); and a get of an id
\* that has no record returns 404.
C6_DeleteThenGet ==
    /\ [](\A p \in Procs :
            txn[p].kind = "insert" /\ txn[p].state = "pending"
            => txn[p].id \notin DOMAIN store /\ txn[p].id < nextId)
    /\ [][/\ \A i \in DOMAIN store' \ DOMAIN store :
               \E p \in Procs : /\ txn[p].kind = "insert"
                                /\ txn[p].state = "pending"
                                /\ txn[p].id = i
                                /\ pc[p] = "commit" /\ pc'[p] = "fetch"
          /\ nextId' >= nextId
          /\ \A p \in Procs :
               Step(p) =>
                 /\ (/\ pc[p] = "delete"
                     /\ ReturnsNoStoreFailure(p))
                    => /\ resp'[p].status_code = 204
                       /\ resp'[p].status = "success"
                       /\ DOMAIN store' = DOMAIN store \ {req[p].client_id}
                       /\ \A i \in DOMAIN store' : store'[i] = store[i]
                 /\ (/\ pc[p] = "lookup"
                     /\ req[p].op = "delete"
                     /\ req[p].client_id \in DOMAIN store
                     /\ pc'[p] # "delete")
                    => resp'[p].metadata =
                          [details |-> [exception |-> "OperationalError"]]
                 /\ (/\ pc[p] = "lookup"
                     /\ req[p].op = "get"
                     /\ req[p].client_id \notin DOMAIN store
                     /\ ReturnsNoStoreFailure(p))
                    => resp'[p].status_code = 404]_vars

\* A delete has returned 204, its record is gone while another record stays,
\* and a get of the deleted id has returned 404.
C6_Witness ==
    \E p, q \in Procs :
        /\ Returned(p) /\ req[p].op = "delete" /\ resp[p].status_code = 204
        /\ req[p].client_id \notin DOMAIN store
        /\ DOMAIN store # {}
        /\ Returned(q) /\ req[q].op = "get" /\ resp[q].status_code = 404
        /\ req[q].client_id = req[p].client_id


----------------------------------------------------------------------------
\* C7 as stated: a list that meets no store failure returns 200 with exactly
\* min(L, N - O) items and total_count N, one N for both.  Stated here for
\* L >= 1 only: what the handler does with L = 0 is C8's matter.
C7_Original ==
    \A p \in Procs :
        (/\ Returned(p)
         /\ req[p].op = "list"
         /\ req[p].limit >= 1
         /\ resp[p].metadata # [details |-> [exception |-> "OperationalError"]])
        => /\ resp[p].status_code = 200
           /\ Len(resp[p].data.items) =
                 Min(req[p].limit,
                     resp[p].metadata.pagination.total_count - req[p].offset)

\* C7 as amended: the page query returns max(0, min(L, N1 - O)) rows, N1 the
\* number of records when it runs; the count query, with L >= 1, makes the
\* handler return 200 with those rows as data and total_count N2, the number
\* of records when the count runs; with L = 0 the handler returns its 500.
C7_PageAndCount ==
    [][\A p \in Procs :
         (Step(p) /\ req[p].op = "list") =>
           /\ store' = store
           /\ (pc[p] = "page" /\ pc'[p] # "close")
              => /\ pc'[p] = "count"
                 /\ Len(result'[p]) =
                       Max(0, Min(req[p].limit,
                                  Cardinality(DOMAIN store) - req[p].offset))
                 /\ \A k \in 1..Len(result'[p]) :
                       /\ result'[p][k].id \in DOMAIN store
                       /\ \A m \in 1..Len(result'[p]) :
                             result'[p][k].id = result'[p][m].id => k = m
           /\ (pc[p] = "count" /\ ReturnsNoStoreFailure(p))
              => IF req[p].limit >= 1
                 THEN /\ resp'[p].status_code = 200
                      /\ resp'[p].status = "success"
                      /\ resp'[p].data.kind = "list"
                      /\ Len(resp'[p].data.items) = Len(result[p])
                      /\ \A k \in 1..Len(result[p]) :
                            resp'[p].data.items[k].id = result[p][k].id
                      /\ resp'[p].metadata.pagination.total_count =
                            Cardinality(DOMAIN store)
                 ELSE resp'[p].status_code = 500]_vars

\* A list has returned 200 with more items than its total_count: records were
\* deleted between its two queries.
C7_Witness ==
    \E p \in Procs :
        /\ Returned(p) /\ req[p].op = "list" /\ resp[p].status_code = 200
        /\ Len(resp[p].data.items) > resp[p].metadata.pagination.total_count

----------------------------------------------------------------------------
\* C8: a list that meets no store failure returns 200 with
\* page = floor(offset / limit) + 1, items_per_page = limit and
\* has_more = (offset + limit < total_count).
C8_PaginationMetadata ==
    \A p \in Procs :
        (/\ Returned(p)
         /\ req[p].op = "list"
         /\ resp[p].metadata # [details |-> [exception |-> "OperationalError"]])
        => /\ resp[p].status_code = 200
           /\ resp[p].metadata.pagination.page =
                 (req[p].offset \div req[p].limit) + 1
           /\ resp[p].metadata.pagination.items_per_page = req[p].limit
           /\ resp[p].metadata.pagination.has_more =
                 (req[p].offset + req[p].limit
                    < resp[p].metadata.pagination.total_count)

----------------------------------------------------------------------------
\* C9: a worker inside a handler holds exactly one session and it is open;
\* an idle worker, its request finished, holds none.
C9_SessionScoped ==
    \A p \in Procs :
        /\ pc[p] # "idle" => session[p] = "open"
        /\ pc[p] = "idle" => session[p] = "none"

\* One request has ended by an exception and one by a 404, both sessions
\* still open, about to be closed.
C9_Witness ==
    \E p, q \in Procs :
        /\ Returned(p) /\ resp[p].status_code = 500 /\ session[p] = "open"
        /\ Returned(q) /\ resp[q].status_code = 404 /\ session[q] = "open"

----------------------------------------------------------------------------
====
